---- MODULE Spec2Model ----
(***************************************************************************)
(* Tolerant inline math for Obsidian: the spaced-dollar matcher            *)
(* (TOLERANT_MATH_REGEX), the Live Preview scanner (buildDecorations, the  *)
(* view plugin and TolerantMathWidget) and the Reading View scanner        *)
(* (processElement, replaceTextNodeWithMath).                              *)
(*                                                                         *)
(* Texts are sequences of characters; offsets are 0-based as in            *)
(* JavaScript, so the character at offset k of t is t[k + 1].  An ASCII    *)
(* character is the one-character string of itself; any other character    *)
(* is the string that names its code point, "U+" and four hexadecimal      *)
(* digits ("U+00A0" is the no-break space, "U+00E9" is e with acute), so   *)
(* that a character is the same value whatever encoding the module is read *)
(* in.                                                                     *)
(***************************************************************************)
EXTENDS Integers, Sequences, FiniteSets, TLC

VARIABLES
    lastIndex,      \* TOLERANT_MATH_REGEX.lastIndex, the shared scan cursor
    text,           \* Matcher: the text handed to a full scan
    matches,        \* Matcher: the Matches the full scan returned
    doc,            \* Live Preview: view.state.doc
    selection,      \* Live Preview: view.state.selection.ranges
    visibleRanges,  \* Live Preview: view.visibleRanges
    mathNodes,      \* Live Preview: syntax-tree nodes whose name contains "math"
    decorations,    \* Live Preview: the plugin instance's stored decoration set
    dom,            \* Live Preview: what each stored widget displays once drawn
    tree,           \* Reading View: the text and element nodes of the subtree
    calls,          \* renderer calls of the current pass, in call order
    scans,          \* lastIndex at the start of each exec loop and test of the pass
    pass            \* the handler that ran last

vars == <<lastIndex, text, matches, doc, selection, visibleRanges, mathNodes,
          decorations, dom, tree, calls, scans, pass>>

(***************************************************************************)
(* Bounds of the model.                                                    *)
(***************************************************************************)
MaxTextLen == 6

MaxFormulas == 2

MaxGap == 1

MaxMathNodes == 1

MaxLeaves == 2

(***************************************************************************)
(* Characters.                                                             *)
(***************************************************************************)
At(t, k) == t[k + 1]

Slice(t, from, to) == SubSeq(t, from + 1, to)

\* [ \t]
IsPad(c) == c \in {" ", "\t"}

\* [^\$\n]
IsBody(c) == c \notin {"$", "\n"}

\* the characters String.prototype.trim removes (WhiteSpace and
\* LineTerminator): space, tab, line feed, carriage return, form feed and
\* vertical tab (U+000B) among the ASCII characters; no-break space, ogham
\* space mark, en quad to hair space, line and paragraph separator, narrow
\* no-break space, medium mathematical space, ideographic space and the
\* byte order mark among the others
IsTrimmed(c) ==
    c \in {" ", "\t", "\n", "\r", "\f", "",
           "U+00A0", "U+1680",
           "U+2000", "U+2001", "U+2002", "U+2003", "U+2004", "U+2005",
           "U+2006", "U+2007", "U+2008", "U+2009", "U+200A",
           "U+2028", "U+2029", "U+202F", "U+205F", "U+3000", "U+FEFF"}

RECURSIVE TrimStart(_)
TrimStart(s) ==
    IF s # <<>> /\ IsTrimmed(Head(s)) THEN TrimStart(Tail(s)) ELSE s

RECURSIVE TrimEnd(_)
TrimEnd(s) ==
    IF s # <<>> /\ IsTrimmed(s[Len(s)])
    THEN TrimEnd(SubSeq(s, 1, Len(s) - 1))
    ELSE s

Trim(s) == TrimEnd(TrimStart(s))

SetMax(S) == CHOOSE m \in S : \A n \in S : n <= m

SetMin(S) == CHOOSE m \in S : \A n \in S : m <= n

RECURSIVE Ascending(_)
Ascending(S) ==
    IF S = {} THEN <<>>
    ELSE <<SetMin(S)>> \o Ascending(S \ {SetMin(S)})

\* the offsets of "$" in t, ascending
Dollars(t) == Ascending({k \in 0..(Len(t) - 1) : At(t, k) = "$"})

Abs(n) == IF n < 0 THEN -n ELSE n

(***************************************************************************)
(* The matcher: /(?<!\$)\$[ \t]+([^\$\n]+?)[ \t]+\$(?!\$)/g                *)
(*                                                                         *)
(* An attempt at offset i consumes "$", p1 padding characters, b body      *)
(* characters, p2 padding characters and "$".  The engine tries the        *)
(* greedy paddings longest first and the lazy body shortest first, and     *)
(* reports the first combination that succeeds.                            *)
(***************************************************************************)
NoMatch == [index |-> -1, raw |-> <<>>, group1 |-> <<>>]

\* OpensAt without the look-behind
OpensAtAnyDollar(t, i) ==
    /\ i < Len(t)
    /\ At(t, i) = "$"

\* (?<!\$)\$ at offset i
OpensAt(t, i) ==
    /\ i < Len(t)
    /\ At(t, i) = "$"
    /\ (i = 0 \/ At(t, i - 1) # "$")

\* \$(?!\$) at offset e
ClosesAt(t, e) ==
    /\ e < Len(t)
    /\ At(t, e) = "$"
    /\ (e + 1 = Len(t) \/ At(t, e + 1) # "$")

\* the longest run of [ \t] from offset k
RECURSIVE PadRun(_, _)
PadRun(t, k) ==
    IF k < Len(t) /\ IsPad(At(t, k)) THEN 1 + PadRun(t, k + 1) ELSE 0

\* the longest run of [^\$\n] from offset k
RECURSIVE BodyRun(_, _)
BodyRun(t, k) ==
    IF k < Len(t) /\ IsBody(At(t, k)) THEN 1 + BodyRun(t, k + 1) ELSE 0

\* [ \t]+\$(?!\$) from offset k: the greedy padding gives characters back
\* until the closing "$" follows; 0 when no length does
LastPad(t, k) ==
    LET fits == {p2 \in 1..PadRun(t, k) : ClosesAt(t, k + p2)}
    IN  IF fits = {} THEN 0 ELSE SetMax(fits)

\* ([^\$\n]+?) from offset k: the lazy body takes one more character until
\* the rest of the pattern matches; 0 when no length does
BodyLen(t, k) ==
    LET fits == {b \in 1..BodyRun(t, k) : LastPad(t, k + b) > 0}
    IN  IF fits = {} THEN 0 ELSE SetMin(fits)

\* [ \t]+ from offset k: the greedy padding gives characters back until the
\* rest of the pattern matches; 0 when no length does
FirstPad(t, k) ==
    LET fits == {p1 \in 1..PadRun(t, k) : BodyLen(t, k + p1) > 0}
    IN  IF fits = {} THEN 0 ELSE SetMax(fits)

\* an attempt at offset i succeeds
MatchesAt(t, i) == OpensAt(t, i) /\ FirstPad(t, i + 1) > 0

\* the match of the attempt at offset i
MatchAt(t, i) ==
    LET p1 == FirstPad(t, i + 1)
        b  == BodyLen(t, i + 1 + p1)
        p2 == LastPad(t, i + 1 + p1 + b)
    IN  [index  |-> i,
         raw    |-> Slice(t, i, i + 1 + p1 + b + p2 + 1),
         group1 |-> Slice(t, i + 1 + p1, i + 1 + p1 + b)]

\* the first offset from i on at which an attempt succeeds, or Len(t)
RECURSIVE FirstStart(_, _)
FirstStart(t, i) ==
    IF i >= Len(t) \/ MatchesAt(t, i) THEN i ELSE FirstStart(t, i + 1)

\* Exec leaving the cursor one past the start of the match
ExecRestart(t, li) ==
    LET i == FirstStart(t, li)
        m == MatchAt(t, i)
    IN  IF li > Len(t) \/ i >= Len(t)
        THEN [match |-> NoMatch, lastIndex |-> 0]
        ELSE [match |-> m, lastIndex |-> m.index + 1]

\* exec returns the match m and leaves the cursor at its end
Found(m) == [match |-> m, lastIndex |-> m.index + Len(m.raw)]

\* exec returns null and leaves the cursor at 0
NotFound == [match |-> NoMatch, lastIndex |-> 0]

\* exec with the cursor at li, i being the first offset from li on at which
\* an attempt succeeds
ExecAt(t, li, i) ==
    IF li > Len(t) \/ i >= Len(t) THEN NotFound ELSE Found(MatchAt(t, i))

\* TOLERANT_MATH_REGEX.exec(t) with the cursor at li: the match (or NoMatch
\* for null) and the cursor the call leaves behind
Exec(t, li) == ExecAt(t, li, FirstStart(t, li))

\* TOLERANT_MATH_REGEX.test(t) with the cursor at li
Test(t, li) ==
    LET r == Exec(t, li)
    IN  [found |-> r.match # NoMatch, lastIndex |-> r.lastIndex]

\* while ((match = TOLERANT_MATH_REGEX.exec(t)) !== null), from cursor li
RECURSIVE ExecLoop(_, _)
ExecLoop(t, li) ==
    LET r == Exec(t, li)
    IN  IF r.match = NoMatch
        THEN <<>>
        ELSE <<r.match>> \o ExecLoop(t, r.lastIndex)

\* lastIndex once the exec loop from cursor li has returned the matches ms
\* and then null: the call that returns null starts where the one before it
\* left the cursor
ExecLoopEnd(t, li, ms) ==
    Exec(t, IF ms = <<>> THEN li ELSE Found(ms[Len(ms)]).lastIndex).lastIndex

\* ResetCursor leaving the cursor where it is
KeepCursor(li) == li

\* TOLERANT_MATH_REGEX.lastIndex = 0, the cursor being at li
ResetCursor(li) == 0

\* match[1].trim()
Formula(m) == Trim(m.group1)

(***************************************************************************)
(* Live Preview: buildDecorations(view).                                   *)
(***************************************************************************)
Range(a, b) == [from |-> a, to |-> b]

\* tree.iterate({from, to, enter}) over every visible range: the math nodes
\* that reach into a visible range
NativeMathRanges(nodes, visible) ==
    {n \in nodes :
        \E k \in 1..Len(visible) :
            n.from <= visible[k].to /\ n.to >= visible[k].from}

\* OverlapsNative with an inclusive boundary test
OverlapsNativeInclusive(natives, matchFrom, matchTo) ==
    \E r \in natives : r.from <= matchTo /\ r.to >= matchFrom

\* nativeMathRanges.some((r) => r.from < matchTo && r.to > matchFrom)
OverlapsNative(natives, matchFrom, matchTo) ==
    \E r \in natives : r.from < matchTo /\ r.to > matchFrom

\* CursorInside with an exclusive boundary test
CursorStrictlyInside(cursors, matchFrom, matchTo) ==
    \E k \in 1..Len(cursors) :
        cursors[k].from < matchTo /\ cursors[k].to > matchFrom

\* cursors.some((r) => r.from <= matchTo && r.to >= matchFrom)
CursorInside(cursors, matchFrom, matchTo) ==
    \E k \in 1..Len(cursors) :
        cursors[k].from <= matchTo /\ cursors[k].to >= matchFrom

\* MatchFrom without the offset of the visible range
MatchFromLocal(from, m) == m.index

\* const matchFrom = from + match.index
MatchFrom(from, m) == from + m.index

\* const matchTo = matchFrom + match[0].length
MatchTo(from, m) == MatchFrom(from, m) + Len(m.raw)

\* the builder and the needsFinish flag before any visible range is scanned,
\* the regex cursor being at li
NewBuilder(li) ==
    [ranges |-> <<>>, needsFinish |-> FALSE, cursor |-> li, starts |-> <<>>]

\* AddMatch raising needsFinish before the two `continue` tests
AddMatchFlagFirst(acc, from, m, cursors, natives) ==
    IF \/ OverlapsNative(natives, MatchFrom(from, m), MatchTo(from, m))
       \/ CursorInside(cursors, MatchFrom(from, m), MatchTo(from, m))
    THEN [acc EXCEPT !.needsFinish = TRUE]
    ELSE [acc EXCEPT
             !.ranges = Append(acc.ranges,
                            [from    |-> MatchFrom(from, m),
                             to      |-> MatchTo(from, m),
                             formula |-> Formula(m)]),
             !.needsFinish = TRUE]

\* one turn of the while loop: skip the match, or builder.add and needsFinish
AddMatch(acc, from, m, cursors, natives) ==
    IF \/ OverlapsNative(natives, MatchFrom(from, m), MatchTo(from, m))
       \/ CursorInside(cursors, MatchFrom(from, m), MatchTo(from, m))
    THEN acc
    ELSE [acc EXCEPT
             !.ranges = Append(acc.ranges,
                            [from    |-> MatchFrom(from, m),
                             to      |-> MatchTo(from, m),
                             formula |-> Formula(m)]),
             !.needsFinish = TRUE]

RECURSIVE AddMatches(_, _, _, _, _)
AddMatches(acc, from, ms, cursors, natives) ==
    IF ms = <<>> THEN acc
    ELSE AddMatches(AddMatch(acc, from, Head(ms), cursors, natives),
                    from, Tail(ms), cursors, natives)

\* the visible range is scanned: the cursor is where the exec loop left it
\* and the cursor the loop began with is on record
AfterScan(acc, t, start, ms) ==
    [acc EXCEPT !.cursor = ExecLoopEnd(t, start, ms),
                !.starts = Append(acc.starts, start)]

\* the body of the for loop on the slice t of the visible range that begins
\* at from: the exec loop, begun with the cursor at start, returns ms
ScanRange(acc, from, t, start, ms, cursors, natives) ==
    AfterScan(AddMatches(acc, from, ms, cursors, natives), t, start, ms)

\* for (const { from, to } of view.visibleRanges): slice, reset the cursor,
\* run the exec loop
RECURSIVE ScanRanges(_, _, _, _, _)
ScanRanges(acc, d, visible, cursors, natives) ==
    IF visible = <<>> THEN acc
    ELSE LET r     == Head(visible)
             t     == Slice(d, r.from, r.to)
             start == ResetCursor(acc.cursor)
         IN  ScanRanges(
                 ScanRange(acc, r.from, t, start, ExecLoop(t, start),
                           cursors, natives),
                 d, Tail(visible), cursors, natives)

\* the decorations and the needsFinish flag of one rebuild, the regex cursor
\* being at li when it begins
BuildDecorations(d, cursors, visible, nodes, li) ==
    ScanRanges(NewBuilder(li), d, visible, cursors,
               NativeMathRanges(nodes, visible))

\* if (needsFinish) finishRenderMath()
FinishCalls(needsFinish) == IF needsFinish THEN <<"flush">> ELSE <<>>

Undrawn == [kind |-> "none", content |-> <<>>]

\* TolerantMathWidget.toDOM: the rendered element, or `$ ${formula} $`
\* when renderMath throws
ToDOMResult(formula, ok) ==
    IF ok
    THEN [kind |-> "math", content |-> formula]
    ELSE [kind |-> "text", content |-> <<"$", " ">> \o formula \o <<" ", "$">>]

(***************************************************************************)
(* Reading View: processElement(element) and replaceTextNodeWithMath.      *)
(*                                                                         *)
(* The subtree is the sequence of its text nodes and rendered elements in  *)
(* document order.  A node carries its parentNode (an element, a node that *)
(* is not an element such as a DocumentFragment, or null) and, when the    *)
(* parent has one inside the subtree, the element around the parent.       *)
(***************************************************************************)
Element(tag, classes) == [tag |-> tag, classes |-> classes]

\* null, as a parentElement or a parentNode
NoElement == Element("", {})

\* a parent node that is not an element: a DocumentFragment
Fragment == Element("#document-fragment", {})

\* node.parentElement: the parentNode when it is an element, else null
ParentElement(node) ==
    IF node.parentNode = Fragment THEN NoElement ELSE node.parentNode

TextItem(content) == [kind |-> "text", content |-> content]

\* MathItem as a text node that spells the formula between dollars
MathItemAsText(formula) ==
    [kind |-> "text", content |-> <<"$", " ">> \o formula \o <<" ", "$">>]

\* the element renderMath returned, with class tolerant-math-inline
MathItem(formula) == [kind |-> "math", content |-> formula]

\* a node of kind and content of item, in the place of node
Place(item, node) ==
    [kind |-> item.kind, content |-> item.content,
     parentNode |-> node.parentNode, outer |-> node.outer]

\* the tag and class tests of acceptNode on one element
IsExcluded(element) ==
    \/ element.tag \in {"CODE", "PRE", "MATH", "SCRIPT"}
    \/ "math" \in element.classes
    \/ "math-inline" \in element.classes
    \/ "math-block" \in element.classes

\* node.textContent.includes("$")
HasDollar(content) == \E k \in 1..Len(content) : content[k] = "$"

\* AcceptNode testing every enclosing element of the subtree
AcceptNodeAnyAncestor(node) ==
    /\ node.kind = "text"
    /\ ParentElement(node) # NoElement
    /\ ~IsExcluded(ParentElement(node))
    /\ ~IsExcluded(node.outer)
    /\ HasDollar(node.content)

\* acceptNode: FILTER_ACCEPT for a text node (NodeFilter.SHOW_TEXT) whose
\* parentElement passes the tests and whose text has a "$"
AcceptNode(node) ==
    /\ node.kind = "text"
    /\ ParentElement(node) # NoElement
    /\ ~IsExcluded(ParentElement(node))
    /\ HasDollar(node.content)

\* fragment, lastIndex and didReplace before the exec loop
NewFragment ==
    [fragment |-> <<>>, lastIndex |-> 0, didReplace |-> FALSE, calls |-> <<>>]

\* the text between the previous match and this one, if any
TextBefore(acc, t, m) ==
    IF m.index > acc.lastIndex
    THEN <<TextItem(Slice(t, acc.lastIndex, m.index))>>
    ELSE <<>>

\* ReplaceStep dropping the match when renderMath throws
ReplaceStepDropFailed(acc, t, m, ok) ==
    [fragment   |-> acc.fragment \o TextBefore(acc, t, m)
                        \o (IF ok THEN <<MathItem(Formula(m))>> ELSE <<>>),
     lastIndex  |-> m.index + Len(m.raw),
     didReplace |-> acc.didReplace \/ ok,
     calls      |-> Append(acc.calls, IF ok THEN "render" ELSE "throw")]

\* one turn of the while loop of replaceTextNodeWithMath: renderMath returns
\* (ok) or throws
ReplaceStep(acc, t, m, ok) ==
    [fragment   |-> acc.fragment \o TextBefore(acc, t, m)
                        \o <<IF ok THEN MathItem(Formula(m))
                                   ELSE TextItem(m.raw)>>,
     lastIndex  |-> m.index + Len(m.raw),
     didReplace |-> acc.didReplace \/ ok,
     calls      |-> Append(acc.calls, IF ok THEN "render" ELSE "throw")]

RECURSIVE ReplaceLoop(_, _, _, _)
ReplaceLoop(acc, t, ms, outcomes) ==
    IF ms = <<>> THEN acc
    ELSE ReplaceLoop(ReplaceStep(acc, t, Head(ms), Head(outcomes)),
                     t, Tail(ms), Tail(outcomes))

\* the remaining text after the last match, if any
WithTextAfter(acc, t) ==
    IF acc.lastIndex < Len(t)
    THEN Append(acc.fragment, TextItem(Slice(t, acc.lastIndex, Len(t))))
    ELSE acc.fragment

\* if (didReplace && textNode.parentNode) replaceChild(fragment, textNode);
\* return didReplace
Splice(node, acc) ==
    [nodes      |-> IF acc.didReplace /\ node.parentNode # NoElement
                    THEN [k \in 1..Len(WithTextAfter(acc, node.content)) |->
                             Place(WithTextAfter(acc, node.content)[k], node)]
                    ELSE <<node>>,
     didReplace |-> acc.didReplace,
     calls      |-> acc.calls]

\* the outcome r of replaceTextNodeWithMath, with the regex cursor it leaves
\* and the cursors its test and its exec loop began with
WithCursor(r, cursor, starts) ==
    [nodes |-> r.nodes, didReplace |-> r.didReplace, calls |-> r.calls,
     cursor |-> cursor, starts |-> starts]

\* replaceTextNodeWithMath(textNode), the regex cursor being at li: the nodes
\* that stand in its place afterwards, the return value and the renderMath
\* calls made
ReplaceTextNodeWithMath(node, outcomes, li) ==
    LET first  == ResetCursor(li)
        tested == Test(node.content, first)
        second == ResetCursor(tested.lastIndex)
        ms     == ExecLoop(node.content, second)
    IN  IF ~tested.found
        THEN WithCursor([nodes |-> <<node>>, didReplace |-> FALSE,
                         calls |-> <<>>],
                        tested.lastIndex, <<first>>)
        ELSE WithCursor(
                 Splice(node, ReplaceLoop(NewFragment, node.content, ms,
                                          outcomes)),
                 ExecLoopEnd(node.content, second, ms), <<first, second>>)

\* nodesToProcess is empty and didRender is false, the regex cursor being
\* at li
NewPass(li) ==
    [tree |-> <<>>, didRender |-> FALSE, calls |-> <<>>, cursor |-> li,
     starts |-> <<>>]

Drop(s, n) == SubSeq(s, n + 1, Len(s))

\* ProcessNode raising didRender for every node it processes
ProcessNodeAlwaysRendered(acc, node, r) ==
    [tree      |-> acc.tree \o r.nodes,
     didRender |-> TRUE,
     calls     |-> acc.calls \o r.calls,
     cursor    |-> r.cursor,
     starts    |-> acc.starts \o r.starts]

\* if (this.replaceTextNodeWithMath(textNode)) didRender = true
ProcessNode(acc, node, r) ==
    [tree      |-> acc.tree \o r.nodes,
     didRender |-> acc.didRender \/ r.didReplace,
     calls     |-> acc.calls \o r.calls,
     cursor    |-> r.cursor,
     starts    |-> acc.starts \o r.starts]

\* the walker collects the accepted text nodes; each is then replaced in
\* turn, the k-th renderMath call of the pass returning iff outcomes[k]
RECURSIVE ProcessNodes(_, _, _)
ProcessNodes(acc, nodes, outcomes) ==
    IF nodes = <<>> THEN acc
    ELSE IF AcceptNode(Head(nodes))
         THEN ProcessNodes(
                  ProcessNode(acc, Head(nodes),
                      ReplaceTextNodeWithMath(Head(nodes),
                                              Drop(outcomes, Len(acc.calls)),
                                              acc.cursor)),
                  Tail(nodes), outcomes)
         ELSE ProcessNodes([acc EXCEPT !.tree = Append(acc.tree, Head(nodes))],
                           Tail(nodes), outcomes)

\* the renderMath calls a pass over nodes makes
RECURSIVE RenderCalls(_)
RenderCalls(nodes) ==
    IF nodes = <<>> THEN 0
    ELSE (IF AcceptNode(Head(nodes))
          THEN Len(ExecLoop(Head(nodes).content, 0))
          ELSE 0) + RenderCalls(Tail(nodes))

(***************************************************************************)
(* Matcher specification: a full scan of one text.  The texts are every    *)
(* text of up to MaxTextLen characters, the texts the documentation names, *)
(* and lines of several spaced formulas.                                   *)
(***************************************************************************)
Alphabet == {"$", " ", "\t", "\n", "a"}

RECURSIVE TextsOfLen(_)
TextsOfLen(n) ==
    IF n = 0 THEN {<<>>}
    ELSE {Append(s, c) : s \in TextsOfLen(n - 1), c \in Alphabet}

\* every text of up to n characters
ShortTexts(n) == UNION {TextsOfLen(k) : k \in 0..n}

\* `$$formula$$`
BlockMathText ==
    <<"$", "$", "f", "o", "r", "m", "u", "l", "a", "$", "$">>

\* `$formula$`
NativeMathText ==
    <<"$", "f", "o", "r", "m", "u", "l", "a", "$">>

\* `$ formula$`
LeftPaddedText ==
    <<"$", " ", "f", "o", "r", "m", "u", "l", "a", "$">>

\* `$formula $`
RightPaddedText ==
    <<"$", "f", "o", "r", "m", "u", "l", "a", " ", "$">>

\* `The price is $5 and $10.`
PriceText ==
    <<"T", "h", "e", " ", "p", "r", "i", "c", "e", " ", "i", "s", " ", "$",
      "5", " ", "a", "n", "d", " ", "$", "1", "0", ".">>

\* `$ E = mc^2 $`
EnergyText ==
    <<"$", " ", "E", " ", "=", " ", "m", "c", "^", "2", " ", "$">>

\* `$ \alpha $`
AlphaText ==
    <<"$", " ", "\\", "a", "l", "p", "h", "a", " ", "$">>

\* `$ a` form feed ` $`: a body that ends with whitespace other than padding
FormFeedText ==
    <<"$", " ", "a", "\f", " ", "$">>

\* `$ ` form feed ` $`: a body of whitespace other than padding
BlankFormFeedText ==
    <<"$", " ", "\f", " ", "$">>

\* `$ ` e with acute, ideographic space ` $`: a body that ends with a
\* Unicode space
WideSpaceText ==
    <<"$", " ", "U+00E9", "U+3000", " ", "$">>

NamedTexts ==
    {BlockMathText, NativeMathText, LeftPaddedText, RightPaddedText,
     PriceText, EnergyText, AlphaText, FormFeedText, BlankFormFeedText,
     WideSpaceText}

\* lines `$ f1 $ sep $ f2 $ ...` of up to MaxFormulas formulas
LineBodies == {<<>>, <<"a">>, <<"a", " ", "a">>}

LinePads == {<<" ">>, <<"\t">>}

LineSeps == {<<" ">>, <<"a">>, <<"\n">>, <<" ", "a", " ">>}

LineUnits ==
    {<<"$">> \o l \o f \o r \o <<"$">> :
        l \in LinePads, f \in LineBodies, r \in LinePads}

RECURSIVE LinesOf(_)
LinesOf(n) ==
    IF n = 1 THEN LineUnits
    ELSE {t \o s \o u : t \in LinesOf(n - 1), s \in LineSeps, u \in LineUnits}

\* every line of up to n formulas
LineTexts(n) == UNION {LinesOf(k) : k \in 1..n}

InitMatcher ==
    /\ lastIndex = 0
    /\ text \in ShortTexts(MaxTextLen) \cup NamedTexts
                   \cup LineTexts(MaxFormulas)
    /\ matches = <<>>
    /\ doc = <<>>
    /\ selection = <<>>
    /\ visibleRanges = <<>>
    /\ mathNodes = {}
    /\ decorations = <<>>
    /\ dom = <<>>
    /\ tree = <<>>
    /\ calls = <<>>
    /\ scans = <<>>
    /\ pass = "none"

\* lastIndex = 0, then the exec loop to its end
FullScan ==
    /\ pass = "none"
    /\ matches' = ExecLoop(text, ResetCursor(lastIndex))
    /\ lastIndex' = ExecLoopEnd(text, ResetCursor(lastIndex), matches')
    /\ scans' = <<ResetCursor(lastIndex)>>
    /\ pass' = "scan"
    /\ UNCHANGED <<text, doc, selection, visibleRanges, mathNodes,
                   decorations, dom, tree, calls>>

NextMatcher == FullScan

SpecMatcher == InitMatcher /\ [][NextMatcher]_vars

(***************************************************************************)
(* Properties of the matcher (SpecMatcher).                                *)
(***************************************************************************)
Scanned == pass = "scan"

MatchEnd(m) == m.index + Len(m.raw)

\* C6: every Match the Matcher returns has start < end and a formula
\* (capture group 1 after trim) that is not empty.
C6_FormulaNonEmpty ==
    Scanned =>
        \A k \in 1..Len(matches) :
            /\ matches[k].index < MatchEnd(matches[k])
            /\ Formula(matches[k]) # <<>>

\* the raw span r is "$", padding, a body free of "$" and newline, padding, "$"
HasShape(r, body) ==
    \E p1 \in 1..Len(r), b \in 1..Len(r), p2 \in 1..Len(r) :
        /\ Len(r) = p1 + b + p2 + 2
        /\ r[1] = "$"
        /\ r[Len(r)] = "$"
        /\ \A j \in 2..(p1 + 1) : r[j] \in {" ", "\t"}
        /\ \A j \in (p1 + 2)..(p1 + b + 1) : r[j] # "$" /\ r[j] # "\n"
        /\ \A j \in (p1 + b + 2)..(Len(r) - 1) : r[j] \in {" ", "\t"}
        /\ body = SubSeq(r, p1 + 2, p1 + b + 1)

\* C7: every Match is an opening "$" not preceded by "$", padding of spaces
\* and tabs, a body of one or more characters other than "$" and newline,
\* padding, and a closing "$" not followed by "$"; no Match spans a newline,
\* and `$$formula$$`, `$formula$`, `$ formula$`, `$formula $` and
\* `The price is $5 and $10.` have no Match.
C7_MatchShape ==
    Scanned =>
        /\ \A k \in 1..Len(matches) :
               LET m == matches[k]
                   e == MatchEnd(m)
               IN  /\ 0 <= m.index
                   /\ e <= Len(text)
                   /\ m.raw = SubSeq(text, m.index + 1, e)
                   /\ HasShape(m.raw, m.group1)
                   /\ (m.index > 0 => text[m.index] # "$")
                   /\ (e < Len(text) => text[e + 1] # "$")
                   /\ \A j \in 1..Len(m.raw) : m.raw[j] # "\n"
        /\ (text \in {BlockMathText, NativeMathText, LeftPaddedText,
                      RightPaddedText, PriceText} => matches = <<>>)

\* a Match found on a line that follows a newline and a tab-padded one
C7_Witness ==
    /\ Scanned
    /\ \E k \in 1..Len(matches) :
           /\ matches[k].index > 0
           /\ text[matches[k].index] = "\n"
           /\ matches[k].raw[2] = "\t"

RECURSIVE StripPads(_)
StripPads(s) ==
    IF s # <<>> /\ s[1] \in {" ", "\t"} THEN StripPads(Tail(s))
    ELSE IF s # <<>> /\ s[Len(s)] \in {" ", "\t"}
         THEN StripPads(SubSeq(s, 1, Len(s) - 1))
         ELSE s

\* the text between the j-th opening "$" and its closing "$"
Interior(t, j) == Slice(t, Dollars(t)[2 * j - 1] + 1, Dollars(t)[2 * j])

\* t is `$ f1 $ sep $ f2 $ ...`: it starts and ends with "$", the "$" pair
\* up, every pair encloses padding, a formula without newline and padding,
\* and every separator is non-empty
IsFormulaLine(t) ==
    LET d == Dollars(t)
    IN  /\ Len(d) >= 2
        /\ Len(d) % 2 = 0
        /\ d[1] = 0
        /\ d[Len(d)] = Len(t) - 1
        /\ \A j \in 1..(Len(d) \div 2) :
               LET x == Interior(t, j)
               IN  /\ Len(x) >= 2
                   /\ x[1] \in {" ", "\t"}
                   /\ x[Len(x)] \in {" ", "\t"}
                   /\ \A k \in 1..Len(x) : x[k] # "\n"
                   /\ StripPads(x) # <<>> =>
                          /\ ~IsTrimmed(StripPads(x)[1])
                          /\ ~IsTrimmed(StripPads(x)[Len(StripPads(x))])
        /\ \A j \in 1..(Len(d) \div 2 - 1) : d[2 * j + 1] > d[2 * j] + 1

\* one Match per formula, left to right, from the opening "$" to just after
\* the closing "$", with the formula text
OneMatchPerFormula(t, ms) ==
    LET d == Dollars(t)
    IN  /\ Len(ms) = Len(d) \div 2
        /\ \A j \in 1..Len(ms) :
               /\ ms[j].index = d[2 * j - 1]
               /\ MatchEnd(ms[j]) = d[2 * j] + 1
               /\ ms[j].raw = Slice(t, d[2 * j - 1], d[2 * j] + 1)
               /\ Formula(ms[j]) = StripPads(Interior(t, j))
        /\ \A j \in 1..(Len(ms) - 1) : MatchEnd(ms[j]) <= ms[j + 1].index

\* C8 as stated: on every line `$ f1 $ sep $ f2 $ ...` a full scan yields
\* exactly one Match per formula, in order, with the formula's span and text.
C8_Original ==
    Scanned /\ IsFormulaLine(text) => OneMatchPerFormula(text, matches)

NonEmptyFormulas(t) ==
    \A j \in 1..(Len(Dollars(t)) \div 2) : StripPads(Interior(t, j)) # <<>>

\* C8 amended: the same, on lines all of whose formulas are non-empty.
C8_OneMatchPerFormula ==
    Scanned /\ IsFormulaLine(text) /\ NonEmptyFormulas(text) =>
        OneMatchPerFormula(text, matches)

\* a scanned line of two formulas, one of them with interior whitespace
C8_Witness ==
    /\ Scanned
    /\ IsFormulaLine(text)
    /\ NonEmptyFormulas(text)
    /\ Len(matches) = 2
    /\ \E j \in 1..2 : Len(Formula(matches[j])) = 3

(***************************************************************************)
(* Live Preview specification: the view plugin over an editor view.  The   *)
(* host owns the document, the selection, the visible ranges and the       *)
(* syntax tree, calls update() after every change, and calls toDOM() on    *)
(* widgets of the stored decoration set when it draws them.                *)
(***************************************************************************)
\* `$ a $  $ a $`: two formulas on one line, two spaces apart
TwoFormulasDoc ==
    <<"$", " ", "a", " ", "$", " ", " ", "$", " ", "a", " ", "$">>

\* `$$ a $`: a block-math opener before a formula
BlockOpenerDoc ==
    <<"$", "$", " ", "a", " ", "$">>

\* `$a$ a $`: a native formula, then text that ends in a dollar
NativeThenTextDoc ==
    <<"$", "a", "$", " ", "a", " ", "$">>

\* `a$` tab `a  $`: text, then a formula padded by a tab and by two spaces
WidePaddingDoc ==
    <<"a", "$", "\t", "a", " ", " ", "$">>

\* `a$   $`: text, then a formula whose body is one space
BlankBodyDoc ==
    <<"a", "$", " ", " ", " ", "$">>

LiveDocs ==
    {TwoFormulasDoc, BlockOpenerDoc, NativeThenTextDoc, WidePaddingDoc,
     BlankBodyDoc}

Positions(d) == 0..Len(d)

\* a cursor, a selection of one character, the whole document selected, or
\* a cursor and a second cursor at the end of the document
Selections(d) ==
    {<<Range(a, a)>> : a \in Positions(d)}
    \cup
    {<<Range(a, a + 1)>> : a \in 0..(Len(d) - 1)}
    \cup
    {<<Range(0, Len(d))>>}
    \cup
    {<<Range(a, a), Range(Len(d), Len(d))>> : a \in 0..(Len(d) - 1)}

\* nothing visible, the whole document, or the document around a hidden
\* stretch of up to MaxGap characters (ordered, non-overlapping ranges)
VisibleLists(d) ==
    {<<>>, <<Range(0, Len(d))>>}
    \cup
    {<<Range(0, p[1]), Range(p[1] + p[2], Len(d))>> :
        p \in {q \in (1..(Len(d) - 1)) \X (0..MaxGap) : q[1] + q[2] < Len(d)}}

\* a math node runs from one "$" to just after the next one
DollarSpans(d) ==
    {Range(Dollars(d)[i], Dollars(d)[i + 1] + 1) :
        i \in 1..(Len(Dollars(d)) - 1)}

\* the content node of a native formula: the text between one "$" and the
\* next, when it is not empty and does not start with a blank
ContentSpans(d) ==
    {Range(Dollars(d)[i] + 1, Dollars(d)[i + 1]) :
        i \in {j \in 1..(Len(Dollars(d)) - 1) :
                   /\ Dollars(d)[j] + 1 < Dollars(d)[j + 1]
                   /\ ~IsPad(At(d, Dollars(d)[j] + 1))}}

MathNodeSets(d) ==
    {S \in SUBSET (DollarSpans(d) \cup ContentSpans(d)) :
        Cardinality(S) <= MaxMathNodes}

InitLive ==
    /\ lastIndex = 0
    /\ text = <<>>
    /\ matches = <<>>
    /\ doc \in LiveDocs
    /\ selection \in Selections(doc)
    /\ visibleRanges \in VisibleLists(doc)
    /\ mathNodes \in MathNodeSets(doc)
    /\ decorations = <<>>
    /\ dom = <<>>
    /\ tree = <<>>
    /\ calls = <<>>
    /\ scans = <<>>
    /\ pass = "none"

\* this.decorations = buildDecorations(view), on the view (d, s, v, n)
Rebuild(d, s, v, n) ==
    \E built \in {BuildDecorations(d, s, v, n, lastIndex)} :
        /\ decorations' = built.ranges
        /\ dom' = [k \in 1..Len(built.ranges) |-> Undrawn]
        /\ calls' = FinishCalls(built.needsFinish)
        /\ lastIndex' = built.cursor
        /\ scans' = built.starts
        /\ pass' = "build"

\* constructor(view)
Construct ==
    /\ pass = "none"
    /\ Rebuild(doc, selection, visibleRanges, mathNodes)
    /\ UNCHANGED <<text, matches, doc, selection, visibleRanges, mathNodes,
                   tree>>

\* update(update): u carries the three flags and the new view
PluginUpdate(u) ==
    IF u.docChanged \/ u.viewportChanged \/ u.selectionSet
    THEN Rebuild(u.doc, u.selection, u.visibleRanges, u.mathNodes)
    ELSE /\ pass' = "update"
         /\ UNCHANGED <<decorations, dom, calls, lastIndex, scans>>

ViewUpdate(d, s, v, n, docChanged, viewportChanged, selectionSet) ==
    [doc |-> d, selection |-> s, visibleRanges |-> v, mathNodes |-> n,
     docChanged |-> docChanged, viewportChanged |-> viewportChanged,
     selectionSet |-> selectionSet]

RangeDistance(r, q) == Abs(r.from - q.from) + Abs(r.to - q.to)

\* the selections one cursor movement away from s, and select-all
SelectionMoves(d, s) ==
    {s2 \in Selections(d) \ {s} :
        \/ s2 = <<Range(0, Len(d))>>
        \/ /\ Len(s2) = Len(s)
           /\ \E k \in 1..Len(s) :
                  /\ RangeDistance(s[k], s2[k]) = 1
                  /\ \A j \in 1..Len(s) : j # k => s2[j] = s[j]
        \/ /\ Len(s2) # Len(s)
           /\ s2[1] = s[1]}

\* the visible ranges one scroll or fold step away from v
VisibleMoves(d, v) ==
    {v2 \in VisibleLists(d) :
        \/ Len(v2) # Len(v) /\ (v = <<>> => Len(v2) = 1)
                            /\ (v2 = <<>> => Len(v) = 1)
        \/ /\ Len(v2) = Len(v)
           /\ v2 # v
           /\ \A k \in 1..Len(v) : RangeDistance(v[k], v2[k]) <= 1}

\* the updates the host can deliver on the view (d, s, v, n):
\*   the user moves a cursor or extends the selection (selectionSet);
\*   the view scrolls or folds (viewportChanged);
\*   the document is replaced (docChanged), the host putting the cursor at
\*   the end and showing the whole, not yet parsed, document;
\*   the parser advances, which sets none of the three flags
ViewUpdates(d, s, v, n) ==
    {ViewUpdate(d, s2, v, n, FALSE, FALSE, TRUE) : s2 \in SelectionMoves(d, s)}
    \cup
    {ViewUpdate(d, s, v2, n, FALSE, TRUE, FALSE) : v2 \in VisibleMoves(d, v)}
    \cup
    {ViewUpdate(d2, <<Range(Len(d2), Len(d2))>>, <<Range(0, Len(d2))>>, {},
                TRUE, FALSE, FALSE) : d2 \in LiveDocs \ {d}}
    \cup
    {ViewUpdate(d, s, v, n2, FALSE, FALSE, FALSE) :
        n2 \in MathNodeSets(d) \ {n}}

\* the host changes the view and calls update(update)
Update ==
    /\ pass \in {"build", "update"}
    /\ \E u \in ViewUpdates(doc, selection, visibleRanges, mathNodes) :
           /\ doc' = u.doc
           /\ selection' = u.selection
           /\ visibleRanges' = u.visibleRanges
           /\ mathNodes' = u.mathNodes
           /\ PluginUpdate(u)
    /\ UNCHANGED <<text, matches, tree>>

\* the host draws a widget of the stored set: toDOM(), in which renderMath
\* returns an element or throws
ToDOM ==
    /\ pass \in {"build", "update"}
    /\ \E k \in 1..Len(decorations), ok \in BOOLEAN :
           /\ dom[k] = Undrawn
           /\ dom' = [dom EXCEPT ![k] = ToDOMResult(decorations[k].formula, ok)]
           /\ calls' = Append(calls, IF ok THEN "render" ELSE "throw")
    /\ UNCHANGED <<lastIndex, text, matches, doc, selection, visibleRanges,
                   mathNodes, decorations, tree, scans, pass>>

NextLive ==
    \/ Construct
    \/ Update
    \/ ToDOM

SpecLive == InitLive /\ [][NextLive]_vars
(***************************************************************************)
(* Reading View specification: the post-processor is handed a subtree of   *)
(* up to MaxLeaves text nodes and may be handed the result again.          *)
(***************************************************************************)
\* `a$ a $a`: text before and after one formula
EmbeddedText == <<"a", "$", " ", "a", " ", "$", "a">>

\* `$ a $ $` tab `a  $`: two formulas, the second with wide padding
TwoFormulasText ==
    <<"$", " ", "a", " ", "$", " ", "$", "\t", "a", " ", " ", "$">>

\* `a$`: a dollar and no formula
PriceLikeText == <<"a", "$">>

\* `a`: no dollar
PlainText == <<"a">>

\* `$$ a $ $ a $`: dollars that belong to no formula, then a formula
LooseDollarsText ==
    <<"$", "$", " ", "a", " ", "$", " ", "$", " ", "a", " ", "$">>

TreeTexts ==
    {EmbeddedText, TwoFormulasText, PriceLikeText, PlainText, LooseDollarsText}

ParentElements ==
    {Element("DIV", {}), Element("CODE", {}), Element("PRE", {}),
     Element("MATH", {}), Element("SCRIPT", {}), Element("SPAN", {"math"}),
     Element("SPAN", {"math-inline"}), Element("SPAN", {"math-block"})}

\* where a text node sits: its parent element and the element around the
\* parent: directly in one of ParentElements, or in a SPAN inside a PRE
LeafPlaces ==
    {<<e, NoElement>> : e \in ParentElements}
    \cup {<<Element("SPAN", {}), Element("PRE", {})>>}

\* any of the texts in a DIV, and the embedded formula in every place; the
\* walker's root is an element, so the parentNode of every text node of the
\* subtree is an element
TextNodes ==
    {[kind |-> "text", content |-> t, parentNode |-> Element("DIV", {}),
      outer |-> NoElement] : t \in TreeTexts}
    \cup
    {[kind |-> "text", content |-> EmbeddedText, parentNode |-> p[1],
      outer |-> p[2]] : p \in LeafPlaces}

RECURSIVE TreesOf(_)
TreesOf(n) ==
    IF n = 0 THEN {<<>>}
    ELSE {Append(tr, node) : tr \in TreesOf(n - 1), node \in TextNodes}

InitTree ==
    /\ lastIndex = 0
    /\ text = <<>>
    /\ matches = <<>>
    /\ doc = <<>>
    /\ selection = <<>>
    /\ visibleRanges = <<>>
    /\ mathNodes = {}
    /\ decorations = <<>>
    /\ dom = <<>>
    /\ tree \in UNION {TreesOf(n) : n \in 1..MaxLeaves}
    /\ calls = <<>>
    /\ scans = <<>>
    /\ pass = "none"

\* one run of processElement(element), renderMath returning or throwing call
\* by call
ProcessPass ==
    /\ \E outcomes \in [1..RenderCalls(tree) -> BOOLEAN] :
           \E done \in {ProcessNodes(NewPass(lastIndex), tree, outcomes)} :
               /\ tree' = done.tree
               /\ calls' = done.calls \o FinishCalls(done.didRender)
               /\ lastIndex' = done.cursor
               /\ scans' = done.starts
    /\ pass' = (IF pass = "none" THEN "process" ELSE "again")
    /\ UNCHANGED <<text, matches, doc, selection, visibleRanges, mathNodes,
                   decorations, dom>>

\* the post-processor is handed the subtree, and possibly its result again
ProcessElement ==
    /\ pass \in {"none", "process"}
    /\ ProcessPass

NextTree == ProcessElement

SpecTree == InitTree /\ [][NextTree]_vars

(***************************************************************************)
(* Both scanners: the plugin is attached either to an editor view or to a  *)
(* rendered subtree.                                                       *)
(***************************************************************************)
InitScanners == InitLive \/ InitTree

NextScanners ==
    \/ doc # <<>> /\ NextLive
    \/ tree # <<>> /\ NextTree

SpecScanners == InitScanners /\ [][NextScanners]_vars

(***************************************************************************)
(* The shared regex: one plugin instance serves an editor view and a       *)
(* rendered subtree of one text node, and the host runs rebuilds and       *)
(* post-processor passes in any order on the one TOLERANT_MATH_REGEX.      *)
(***************************************************************************)
InitShared ==
    /\ lastIndex = 0
    /\ text = <<>>
    /\ matches = <<>>
    /\ doc \in LiveDocs
    /\ selection = <<Range(Len(doc), Len(doc))>>
    /\ visibleRanges = <<Range(0, Len(doc))>>
    /\ mathNodes = {}
    /\ decorations = <<>>
    /\ dom = <<>>
    /\ tree \in TreesOf(1)
    /\ calls = <<>>
    /\ scans = <<>>
    /\ pass = "none"

\* the view is constructed or scrolls: a rebuild over some visible ranges
EditorPass ==
    /\ \E v \in VisibleLists(doc) :
           /\ visibleRanges' = v
           /\ Rebuild(doc, selection, v, mathNodes)
    /\ UNCHANGED <<text, matches, doc, selection, mathNodes, tree>>

\* the post-processor runs on the subtree as it is now
ReaderPass == ProcessPass

NextShared ==
    \/ EditorPass
    \/ ReaderPass

SpecShared == InitShared /\ [][NextShared]_vars

(***************************************************************************)
(* Properties of the Live Preview scanner (SpecLive).                      *)
(***************************************************************************)
\* the stored set is the rebuild of the current view
Built == pass = "build"

Count(s, x) == Cardinality({k \in 1..Len(s) : s[k] = x})

\* the Matches of the k-th visible range's slice, before suppression
SliceMatches(k) ==
    ExecLoop(Slice(doc, visibleRanges[k].from, visibleRanges[k].to), 0)

\* some selection range touches or overlaps [a, b)
Touched(a, b) ==
    \E c \in 1..Len(selection) : selection[c].from <= b /\ selection[c].to >= a

\* some selection range meets [a, b) at a boundary only
TouchedAtBoundary(a, b) ==
    /\ \E c \in 1..Len(selection) : selection[c].from = b \/ selection[c].to = a
    /\ \A c \in 1..Len(selection) : selection[c].from >= b \/ selection[c].to <= a

\* some native-math range of the visible ranges overlaps [a, b)
NativeOverlap(a, b) ==
    \E n \in NativeMathRanges(mathNodes, visibleRanges) : n.from < b /\ n.to > a

Decorated(a, b) ==
    \E i \in 1..Len(decorations) :
        decorations[i].from = a /\ decorations[i].to = b

\* C1: after a rebuild, a Match [matchFrom, matchTo) that a selection range
\* touches or overlaps (r.from <= matchTo and r.to >= matchFrom, boundaries
\* included) has no decoration, and a Match that no selection range touches
\* and no native-math range overlaps has one.
C1_SelectionSuppresses ==
    Built =>
        \A k \in 1..Len(visibleRanges) :
            \A j \in 1..Len(SliceMatches(k)) :
                LET a == visibleRanges[k].from + SliceMatches(k)[j].index
                    b == a + Len(SliceMatches(k)[j].raw)
                IN  /\ Touched(a, b) => ~Decorated(a, b)
                    /\ ~Touched(a, b) /\ ~NativeOverlap(a, b) => Decorated(a, b)

\* a rebuild in which a cursor only touches one Match, which is suppressed,
\* while another Match is decorated
C1_Witness ==
    /\ Built
    /\ decorations # <<>>
    /\ \E k \in 1..Len(visibleRanges) :
           \E j \in 1..Len(SliceMatches(k)) :
               LET a == visibleRanges[k].from + SliceMatches(k)[j].index
                   b == a + Len(SliceMatches(k)[j].raw)
               IN  TouchedAtBoundary(a, b) /\ ~Decorated(a, b)

\* the visible ranges are ordered and do not overlap
OrderedVisible ==
    /\ \A k \in 1..Len(visibleRanges) :
           visibleRanges[k].from <= visibleRanges[k].to
    /\ \A k \in 1..(Len(visibleRanges) - 1) :
           visibleRanges[k].to <= visibleRanges[k + 1].from

\* C2: for ordered, non-overlapping visible ranges the decorations of one
\* rebuild are in strictly ascending order of start offset and each starts
\* at or after the end of the one before it.
C2_AscendingDecorations ==
    Built /\ OrderedVisible =>
        /\ \A i \in 1..Len(decorations) :
               decorations[i].from < decorations[i].to
        /\ \A i \in 1..(Len(decorations) - 1) :
               /\ decorations[i].from < decorations[i + 1].from
               /\ decorations[i].to <= decorations[i + 1].from

\* a rebuild over two visible ranges that decorates one Match in each
C2_Witness ==
    /\ Built
    /\ Len(visibleRanges) = 2
    /\ Len(decorations) = 2
    /\ decorations[1].to <= visibleRanges[1].to
    /\ decorations[2].from >= visibleRanges[2].from
    /\ visibleRanges[2].from > 0

\* C4: a rebuild calls finishRenderMath exactly once when it produced a
\* decoration and not at all when it produced none.
C4_FlushOncePerRebuild ==
    Built =>
        Count(calls, "flush") = (IF decorations # <<>> THEN 1 ELSE 0)

\* a rebuild that suppresses one Match, decorates another and flushes once
C4_Witness ==
    /\ Built
    /\ Len(decorations) = 1
    /\ Count(calls, "flush") = 1
    /\ \E k \in 1..Len(visibleRanges) : Len(SliceMatches(k)) = 2

\* the math nodes that intersect a visible range
VisibleNatives ==
    {n \in mathNodes :
        \E k \in 1..Len(visibleRanges) :
            n.from <= visibleRanges[k].to /\ n.to >= visibleRanges[k].from}

\* C11: after a rebuild, a Match [matchFrom, matchTo) that a native-math
\* range n of the visible ranges overlaps (n.from < matchTo and
\* n.to > matchFrom) has no decoration, whatever the selection; a Match
\* that native-math ranges only touch at a boundary, and that no selection
\* range touches, has one.
C11_NativeSuppresses ==
    Built =>
        \A k \in 1..Len(visibleRanges) :
            \A j \in 1..Len(SliceMatches(k)) :
                LET a == visibleRanges[k].from + SliceMatches(k)[j].index
                    b == a + Len(SliceMatches(k)[j].raw)
                IN  /\ (\E n \in VisibleNatives : n.from < b /\ n.to > a)
                           => ~Decorated(a, b)
                    /\ /\ \E n \in VisibleNatives : n.to = a \/ n.from = b
                       /\ \A n \in VisibleNatives : n.to <= a \/ n.from >= b
                       /\ ~Touched(a, b)
                       => Decorated(a, b)

\* a rebuild in which a native-math range overlaps a Match that no selection
\* range touches, and the Match is not decorated
C11_Witness ==
    /\ Built
    /\ \E k \in 1..Len(visibleRanges) :
           \E j \in 1..Len(SliceMatches(k)) :
               LET a == visibleRanges[k].from + SliceMatches(k)[j].index
                   b == a + Len(SliceMatches(k)[j].raw)
               IN  /\ \E n \in VisibleNatives : n.from < b /\ n.to > a
                   /\ ~Touched(a, b)
                   /\ ~Decorated(a, b)

\* C13: after construction and after every update, the stored decoration
\* set is what buildDecorations yields on the current view.
C13_StoredSetIsRebuild ==
    pass \in {"build", "update"} =>
        decorations =
            BuildDecorations(doc, selection, visibleRanges, mathNodes,
                             lastIndex).ranges

\* the spans of the Matches of the k-th visible range's slice, in document
\* offsets
SliceSpans(k) ==
    {Range(visibleRanges[k].from + SliceMatches(k)[j].index,
           visibleRanges[k].from + SliceMatches(k)[j].index
               + Len(SliceMatches(k)[j].raw)) :
        j \in 1..Len(SliceMatches(k))}

\* the spans of the Matches of the whole document text
DocSpans ==
    {Range(ExecLoop(doc, 0)[j].index,
           ExecLoop(doc, 0)[j].index + Len(ExecLoop(doc, 0)[j].raw)) :
        j \in 1..Len(ExecLoop(doc, 0))}

\* the span s lies inside the visible range r
Inside(s, r) == r.from <= s.from /\ s.to <= r.to

\* every decorated span lies within one visible range
DecorationsInsideVisible ==
    \A i \in 1..Len(decorations) :
        \E k \in 1..Len(visibleRanges) :
            Inside(Range(decorations[i].from, decorations[i].to),
                   visibleRanges[k])

\* C15: after a rebuild, the Matches found in each visible range's slice are
\* exactly the Matches of the whole document text that lie inside that
\* visible range, and every decorated span lies within one visible range.
C15_WindowingKeepsMatches ==
    Built =>
        /\ \A k \in 1..Len(visibleRanges) :
               SliceSpans(k) = {s \in DocSpans : Inside(s, visibleRanges[k])}
        /\ DecorationsInsideVisible

\* C5: in a pass that flushes, every renderMath call for a unit of the pass
\* is followed by a finishRenderMath call.
C5_FlushAfterRenders ==
    \A i \in 1..Len(calls) :
        /\ calls[i] \in {"render", "throw"}
        /\ Count(calls, "flush") > 0
        => \E j \in (i + 1)..Len(calls) : calls[j] = "flush"

(***************************************************************************)
(* Properties of the Reading View scanner (SpecTree).                      *)
(***************************************************************************)
Processed == pass \in {"process", "again"}

\* C3: one invocation of processElement calls finishRenderMath exactly once
\* when at least one renderMath call of the invocation returned, and not at
\* all when none did; the flush is the last call of the invocation.
C3_FlushOncePerInvocation ==
    Processed =>
        /\ Count(calls, "flush") = (IF Count(calls, "render") > 0 THEN 1 ELSE 0)
        /\ \A i \in 1..(Len(calls) - 1) : calls[i] # "flush"

\* an invocation with several successful renders and a failed one, and one
\* flush
C3_Witness ==
    /\ pass = "process"
    /\ Count(calls, "render") >= 2
    /\ Count(calls, "throw") >= 1
    /\ Count(calls, "flush") = 1

\* C9: no text inside a CODE, PRE, MATH or SCRIPT element or an element of
\* class math, math-inline or math-block is replaced, whether that element
\* is the text node's parent or a more distant ancestor.
C9_ExcludedSkipped ==
    \A k \in 1..Len(tree) :
        tree[k].kind = "math" =>
            ~IsExcluded(ParentElement(tree[k])) /\ ~IsExcluded(tree[k].outer)

\* C12 as stated: a second run of processElement on the result of a first
\* run makes no render call and no flush, whatever succeeded or failed in
\* the first run.
C12_Original ==
    pass = "again" => calls = <<>>

\* the step is the second run of processElement on the same subtree
SecondRun == pass = "process" /\ pass' = "again"

\* C12 amended: when every render call of the first run returned, the
\* second run changes nothing and makes no render call and no flush; in
\* general the second run makes one render call for each Match whose render
\* failed in the first run, and none for rendered units, and it flushes
\* once if one of these calls returns and not at all otherwise.
C12_SecondRun ==
    [][SecondRun =>
          /\ Count(calls, "throw") = 0 => calls' = <<>> /\ tree' = tree
          /\ Count(calls', "render") + Count(calls', "throw")
                 = Count(calls, "throw")
          /\ Count(calls', "flush")
                 = (IF Count(calls', "render") > 0 THEN 1 ELSE 0)]_vars

\* a second run that found nothing to do on a subtree with rendered units
C12_Witness ==
    /\ pass = "again"
    /\ calls = <<>>
    /\ \E k \in 1..Len(tree) : tree[k].kind = "math"
    /\ \E k \in 1..Len(tree) : tree[k].kind = "text" /\ HasDollar(tree[k].content)

(***************************************************************************)
(* Properties of both scanners (SpecScanners).                             *)
(***************************************************************************)
\* the text of the decorated span k
RawSpan(k) == Slice(doc, decorations[k].from, decorations[k].to)

\* C10 as stated, for the widget: when renderMath throws, the widget shows
\* the original delimited text of the Match.
C10_Original ==
    \A k \in 1..Len(dom) :
        dom[k].kind = "text" => dom[k].content = RawSpan(k)

\* the widget shows "$ ", the trimmed text between the delimiters, " $"
\* (no widget is drawn before the first step)
WidgetFallback ==
    \A k \in 1..Len(dom) :
        dom[k].kind = "text" =>
            dom[k].content =
                <<"$", " ">> \o Trim(SubSeq(RawSpan(k), 2, Len(RawSpan(k)) - 1))
                             \o <<" ", "$">>

\* the step is one invocation of processElement
ProcessStep == pass' \in {"process", "again"} /\ pass' # pass

\* in an invocation, the j-th Match of leaf k made the renderMath call
\* number RenderCalls(leaves before k) + j; the leaf is spliced when one of
\* its calls returned
FragmentKeepsRaw ==
    \A k \in 1..Len(tree) :
        AcceptNode(tree[k]) =>
            LET ms    == ExecLoop(tree[k].content, 0)
                first == RenderCalls(SubSeq(tree, 1, k - 1))
            IN  (\E j \in 1..Len(ms) : calls'[first + j] = "render") =>
                    \A j \in 1..Len(ms) :
                        calls'[first + j] = "throw" =>
                            \E i \in 1..Len(tree') :
                                tree'[i] = [kind       |-> "text",
                                            content    |-> ms[j].raw,
                                            parentNode |-> tree[k].parentNode,
                                            outer      |-> tree[k].outer]

\* C10 amended: when renderMath throws for a Match, the Reading View keeps
\* the exact raw span as a text node of the spliced fragment, and the widget
\* shows "$ " + formula + " $", the raw span with its paddings and the
\* whitespace around the formula replaced by single spaces.
C10_FallbackKeepsText ==
    [][/\ WidgetFallback'
       /\ ProcessStep => FragmentKeepsRaw]_vars

\* a widget whose render failed shows a text other than its raw span
C10_Witness ==
    \E k \in 1..Len(dom) :
        /\ dom[k].kind = "text"
        /\ dom[k].content # RawSpan(k)
        /\ Len(dom[k].content) < Len(RawSpan(k))

(***************************************************************************)
(* Properties of the shared regex (SpecShared).                            *)
(***************************************************************************)
\* C14: whatever rebuilds and post-processor passes came before, every exec
\* loop and every existence test of a pass begins with lastIndex = 0, and
\* a rebuild finds what it finds with a fresh regex.
C14_ScansStartAtZero ==
    /\ \A k \in 1..Len(scans) : scans[k] = 0
    /\ pass = "build" =>
           decorations =
               BuildDecorations(doc, selection, visibleRanges, mathNodes,
                                0).ranges

\* a post-processor pass that ran after a rebuild with decorations, and
\* whose existence test returned true before its exec loop
C14_Witness ==
    /\ pass \in {"process", "again"}
    /\ decorations # <<>>
    /\ Len(scans) = 2
    /\ Count(calls, "render") > 0
====
